---- MODULE Spec2Model ----
(***************************************************************************)
(* Model of spec-gardener: the agent-output parser (src/src/adapters.ts),  *)
(* the reset-context reconstruction (src/src/context.ts) and the run       *)
(* pipeline (src/src/main.ts).                                             *)
(*                                                                         *)
(* Text is a sequence of characters.  Runs of letters that the parser and  *)
(* JSON.parse never look inside ("type", "question", "Hi", ...) are kept   *)
(* as one element; every character the code or the JSON grammar inspects   *)
(* (braces, brackets, quotes, colon, comma, whitespace, digits) is an      *)
(* element of its own.                                                     *)
(***************************************************************************)
EXTENDS Integers, Sequences, FiniteSets, TLC

VARIABLES
    pc,         \* position of the run / of the function under check
    recipe,     \* how the agent produced its output (ghost: never read by the code)
    output,     \* raw agent stdout handed to parseOutput
    parsed,     \* ParseResult returned by parseCliOutput, or NoParse
    agent,      \* the "agent" action input
    decision,   \* RunDecision returned by shouldProcess
    fetched,    \* SpecContext returned by fetchIssueContext / fetchPullRequestContext
    history,    \* userContentEdits snapshots of the item, oldest first, or HistoryDown
    context,    \* adjustedContext handed to the prompt and the dispatcher
    item,       \* "issue" or "pullRequest": what the event is about
    adapter,    \* ProviderAdapter chosen by getAdapter, or NoAdapter
    calls,      \* hosting-API calls and process spawns issued so far, in order
    notify,     \* owner && repo && issueNumber && token at the time of a throw
    failed,     \* core.setFailed was called
    proc,       \* the agent process of runProvider: its state and exit code
    timer,      \* timeoutId of runProvider: "unset", "armed", "fired" or "cleared"
    stderr,     \* what the agent process wrote to its stderr pipe
    error       \* the error the catch block of main received, or NoError

vars == <<pc, recipe, output, parsed, agent, decision, fetched, history,
          context, item, adapter, calls, notify, failed, proc, timer, stderr,
          error>>

----------------------------------------------------------------------------
(* Characters *)

DQ == "\""
SQ == "'"
SP == " "
NL == "\n"

Whitespace == {SP, NL}

\* String.prototype.trim: strip leading and trailing whitespace.
RECURSIVE TrimStart(_)
TrimStart(s) ==
    IF s # <<>> /\ Head(s) \in Whitespace THEN TrimStart(Tail(s)) ELSE s

RECURSIVE TrimEnd(_)
TrimEnd(s) ==
    IF s # <<>> /\ s[Len(s)] \in Whitespace
    THEN TrimEnd(SubSeq(s, 1, Len(s) - 1))
    ELSE s

\* Variant: only the leading whitespace is stripped.
Trim_leadingOnly(s) == TrimStart(s)

Trim(s) == TrimEnd(TrimStart(s))

\* String.prototype.indexOf / lastIndexOf for a single character.  Positions
\* are 1-based here, so "not found" (-1 in the source) is 0.
NotFound == 0

IndexOf(s, c) ==
    IF \E i \in 1..Len(s) : s[i] = c
    THEN CHOOSE i \in 1..Len(s) : s[i] = c /\ \A j \in 1..(i - 1) : s[j] # c
    ELSE NotFound

\* Variant: the first occurrence is taken for the last.
LastIndexOf_first(s, c) == IndexOf(s, c)

LastIndexOf(s, c) ==
    IF \E i \in 1..Len(s) : s[i] = c
    THEN CHOOSE i \in 1..Len(s) : s[i] = c /\ \A j \in (i + 1)..Len(s) : s[j] # c
    ELSE NotFound

\* String.prototype.slice(from, to) with 1-based inclusive ends.
Slice(s, from, to) == SubSeq(s, from, to)

----------------------------------------------------------------------------
(* JavaScript values produced by JSON.parse.  One record shape for every   *)
(* kind: k is the kind, s the characters of a string or the digits of a    *)
(* number, m the members <<key, value>> of an object or the items of an    *)
(* array.                                                                  *)

Val(k, s, m) == [k |-> k, s |-> s, m |-> m]
Undefined == Val("undefined", <<>>, <<>>)
Null      == Val("null", <<>>, <<>>)
StrVal(s) == Val("string", s, <<>>)
NumVal(d) == Val("number", d, <<>>)
ObjVal(m) == Val("object", <<>>, m)
ArrVal(m) == Val("array", <<>>, m)

Digits == {"0", "7"}

\* Variant: a presence test in place of ToBoolean.
Truthy_present(v) == v.k \notin {"undefined", "null"}

\* ToBoolean: what `x && ...` and `x || ...` test.
Truthy(v) ==
    CASE v.k = "string" -> v.s # <<>>
      [] v.k = "number" -> \E i \in 1..Len(v.s) : v.s[i] # "0"
      [] v.k = "object" -> TRUE
      [] v.k = "array"  -> TRUE
      [] OTHER          -> FALSE

\* Property read parsed[key]: the last member of that name wins in
\* JSON.parse; a non-object value has none of the names read here.  A member
\* name is the character sequence between its quotes.
RECURSIVE LookUp(_, _, _)
LookUp(m, key, i) ==
    IF i = 0 THEN Undefined
    ELSE IF m[i][1] = <<key>> THEN m[i][2]
    ELSE LookUp(m, key, i - 1)

Get(v, key) == IF v.k = "object" THEN LookUp(v.m, key, Len(v.m)) ELSE Undefined

----------------------------------------------------------------------------
(* JSON.parse as a recursive-descent parser over the characters.  A parse  *)
(* step returns [ok, v, p]: whether it succeeded, the value, and the       *)
(* position after it.                                                      *)

Step(ok, v, p) == [ok |-> ok, v |-> v, p |-> p]
Bad == Step(FALSE, Undefined, 0)

At(s, p) == IF p >= 1 /\ p <= Len(s) THEN s[p] ELSE "<eof>"

RECURSIVE SkipWs(_, _)
SkipWs(s, p) == IF At(s, p) \in Whitespace THEN SkipWs(s, p + 1) ELSE p

\* Position of the closing quote of a string opened before p, or NotFound.
\* A raw line break inside a string literal is a syntax error.
RECURSIVE CloseQuote(_, _)
CloseQuote(s, p) ==
    IF p > Len(s) \/ s[p] = NL THEN NotFound
    ELSE IF s[p] = DQ THEN p
    ELSE CloseQuote(s, p + 1)

ParseString(s, p) ==
    IF At(s, p) # DQ THEN Bad
    ELSE LET c == CloseQuote(s, p + 1)
         IN  IF c = NotFound THEN Bad
             ELSE Step(TRUE, StrVal(SubSeq(s, p + 1, c - 1)), c + 1)

RECURSIVE DigitsEnd(_, _)
DigitsEnd(s, p) == IF At(s, p) \in Digits THEN DigitsEnd(s, p + 1) ELSE p

\* An integer literal: no leading zero unless it is the single digit 0.
ParseNumber(s, p) ==
    LET e == DigitsEnd(s, p)
    IN  IF e = p \/ (s[p] = "0" /\ e > p + 1) THEN Bad
        ELSE Step(TRUE, NumVal(SubSeq(s, p, e - 1)), e)

RECURSIVE ParseValue(_, _)
RECURSIVE ParseMembers(_, _, _)
RECURSIVE ParseItems(_, _, _)

\* p is at the opening quote of a member name.
ParseMembers(s, p, acc) ==
    LET key == ParseString(s, p)
        c   == SkipWs(s, key.p)
        val == ParseValue(s, c + 1)
        e   == SkipWs(s, val.p)
        all == Append(acc, <<key.v.s, val.v>>)
    IN  IF ~key.ok \/ At(s, c) # ":" THEN Bad
        ELSE IF ~val.ok THEN Bad
        ELSE IF At(s, e) = "}" THEN Step(TRUE, ObjVal(all), e + 1)
        ELSE IF At(s, e) = "," THEN ParseMembers(s, SkipWs(s, e + 1), all)
        ELSE Bad

\* p is at the first character of an array item.
ParseItems(s, p, acc) ==
    LET val == ParseValue(s, p)
        e   == SkipWs(s, val.p)
        all == Append(acc, val.v)
    IN  IF ~val.ok THEN Bad
        ELSE IF At(s, e) = "]" THEN Step(TRUE, ArrVal(all), e + 1)
        ELSE IF At(s, e) = "," THEN ParseItems(s, e + 1, all)
        ELSE Bad

ParseValue(s, p0) ==
    LET p == SkipWs(s, p0)
        c == At(s, p)
    IN  CASE c = "{" ->
                LET q == SkipWs(s, p + 1)
                IN  IF At(s, q) = "}" THEN Step(TRUE, ObjVal(<<>>), q + 1)
                    ELSE ParseMembers(s, q, <<>>)
          [] c = "[" ->
                LET q == SkipWs(s, p + 1)
                IN  IF At(s, q) = "]" THEN Step(TRUE, ArrVal(<<>>), q + 1)
                    ELSE ParseItems(s, q, <<>>)
          [] c = DQ -> ParseString(s, p)
          [] c = "null" -> Step(TRUE, Null, p + 1)
          [] c \in Digits -> ParseNumber(s, p)
          [] OTHER -> Bad

\* JSON.parse(text): ok = FALSE stands for the SyntaxError it throws.
JsonParse(s) ==
    LET r == ParseValue(s, 1)
    IN  IF r.ok /\ SkipWs(s, r.p) = Len(s) + 1
        THEN [ok |-> TRUE, v |-> r.v]
        ELSE [ok |-> FALSE, v |-> Undefined]

----------------------------------------------------------------------------
(* adapters.ts: the result parser *)

DEFAULT_COMPLETION_COMMENT == StrVal(<<"Spec updated by Spec Gardener.">>)
NO_OUTPUT_MESSAGE == StrVal(<<"No output received from agent.">>)

\* CliResult, one record shape for the three tags; a field the variant does
\* not have is Undefined.
CliResult(type, content, body, comment, title) ==
    [type |-> type, content |-> content, body |-> body,
     comment |-> comment, title |-> title]
Question(content) == CliResult("question", content, Undefined, Undefined, Undefined)
Complete(body, comment) == CliResult("complete", Undefined, body, comment, Undefined)
NoChange == CliResult("no_change", Undefined, Undefined, Undefined, Undefined)
NoResult == CliResult("none", Undefined, Undefined, Undefined, Undefined)

\* What a call of parseJsonResult does: throws, returns null, or returns r.
Outcome(kind, r) == [kind |-> kind, r |-> r]
Throws == Outcome("throw", NoResult)
ReturnsNull == Outcome("null", NoResult)
Returns(r) == Outcome("result", r)

IsTag(v, tag) == v.k = "string" /\ v.s = <<tag>>

\* a ?? b
Coalesce(a, b) == IF a.k \in {"undefined", "null"} THEN b ELSE a

\* Variant: ?? written for ||.
OrElse_nullish(a, b) == Coalesce(a, b)

\* a || b
OrElse(a, b) == IF Truthy(a) THEN a ELSE b

parseJsonResult(candidate) ==
    LET j == JsonParse(candidate)
        parsed_ == j.v
        type == Coalesce(Get(parsed_, "type"), Get(parsed_, "status"))
    IN  IF ~j.ok THEN Throws                    \* SyntaxError of JSON.parse
        ELSE IF parsed_.k = "null" THEN Throws  \* TypeError: null has no properties
        ELSE IF IsTag(type, "question") /\ Truthy(Get(parsed_, "content"))
             THEN Returns(Question(Get(parsed_, "content")))
        ELSE IF IsTag(type, "complete") /\ Truthy(Get(parsed_, "body"))
             THEN Returns(Complete(Get(parsed_, "body"),
                                   OrElse(Get(parsed_, "comment"),
                                          DEFAULT_COMPLETION_COMMENT)))
        ELSE IF IsTag(type, "no_change") THEN Returns(NoChange)
        ELSE ReturnsNull

\* ParseResult; threw = TRUE stands for an exception leaving parseCliOutput.
ParseResult(result, parseFailed) ==
    [result |-> result, parseFailed |-> parseFailed, threw |-> FALSE]
ParseThrew == [result |-> NoResult, parseFailed |-> TRUE, threw |-> TRUE]
NoParse == [result |-> NoResult, parseFailed |-> FALSE, threw |-> FALSE]

parseCliOutput(out) ==
    LET trimmed == Trim(out)
        direct == parseJsonResult(trimmed)
        firstBrace == IndexOf(trimmed, "{")
        lastBrace == LastIndexOf(trimmed, "}")
        sliced == Slice(trimmed, firstBrace, lastBrace)
        extracted == parseJsonResult(sliced)
    IN  IF trimmed = <<>> THEN ParseResult(Question(NO_OUTPUT_MESSAGE), TRUE)
        ELSE IF direct.kind = "result" THEN ParseResult(direct.r, FALSE)
        \* a throw of the direct attempt is caught and ignored
        ELSE IF firstBrace # NotFound /\ lastBrace > firstBrace
                /\ extracted.kind = "result"
             THEN ParseResult(extracted.r, FALSE)
        \* a throw of the extraction attempt is caught and ignored
        ELSE ParseResult(Question(StrVal(trimmed)), TRUE)

----------------------------------------------------------------------------
(* Agent outputs.  A recipe says how the agent wrote its reply; the text   *)
(* handed to the parser is Render(recipe).  A field code is "-" (member    *)
(* absent), "text", "empty" (the empty string), "braces" (a string with    *)
(* braces in it), "seven" (the number 7) or "null".                        *)

MaxRawLen == 3

FieldChars(code) ==
    CASE code = "text"   -> <<"Hi">>
      [] code = "braces" -> <<"a", "}", SP, "{", "b">>
      [] OTHER           -> <<>>

\* The JavaScript value the member is meant to carry.
FieldValue(code) ==
    CASE code \in {"text", "braces", "empty"} -> StrVal(FieldChars(code))
      [] code = "seven" -> NumVal(<<"7">>)
      [] code = "null"  -> Null
      [] OTHER          -> Undefined

\* name:value as the agent writes it, with quote character q.
Member(q, name, valueText) == <<q, name, q, ":">> \o valueText

Quoted(q, chars) == <<q>> \o chars \o <<q>>

FieldMember(q, name, code) ==
    CASE code = "-"     -> <<>>
      [] code = "seven" -> <<Member(q, name, <<"7">>)>>
      [] code = "null"  -> <<Member(q, name, <<"null">>)>>
      [] OTHER          -> <<Member(q, name, Quoted(q, FieldChars(code)))>>

TagMember(q, name, tag) ==
    CASE tag = "-"    -> <<>>
      [] tag = "null" -> <<Member(q, name, <<"null">>)>>
      [] OTHER        -> <<Member(q, name, Quoted(q, <<tag>>))>>

RECURSIVE JoinComma(_)
JoinComma(ms) ==
    IF ms = <<>> THEN <<>>
    ELSE IF Len(ms) = 1 THEN ms[1]
    ELSE ms[1] \o <<",">> \o JoinComma(Tail(ms))

\* The object text of a recipe.
Core(r) ==
    <<"{">>
    \o JoinComma(TagMember(r.q, "type", r.ty) \o TagMember(r.q, "status", r.st)
                 \o FieldMember(r.q, "content", r.content)
                 \o FieldMember(r.q, "body", r.body)
                 \o FieldMember(r.q, "comment", r.comment)
                 \o FieldMember(r.q, "title", r.title))
    \o (IF r.comma THEN <<",">> ELSE <<>>)
    \o <<"}">>

\* The reply without its outer padding: the object inside its prose, or the
\* raw characters of a reply that is no object at all.
Body(r) == IF r.fam = "raw" THEN r.raw ELSE r.pre \o Core(r) \o r.post

Render(r) == r.lead \o Body(r) \o r.tail

Plain ==
    [fam |-> "object", ty |-> "-", st |-> "-", content |-> "-", body |-> "-",
     comment |-> "-", title |-> "-", q |-> DQ, comma |-> FALSE,
     pre |-> <<>>, post |-> <<>>, lead |-> <<>>, tail |-> <<>>, raw |-> <<>>]

Tags == {"question", "complete", "no_change"}

\* Prose around the object: a fenced block ("~~~" is the fence line), text
\* with braces of its own, an enclosing array.
ProseBefore ==
    {<<>>, <<"Output", ":", NL, "~~~", "json", NL>>,
     <<"see", SP, "{", "x", "}", SP>>, <<"[">>}
ProseAfter ==
    {<<>>, <<NL, "~~~">>, <<SP, "}", SP, "done">>, <<"]">>}
Padding == {<<>>, <<SP, NL>>}

\* Every combination of discriminant and fields, written as plain JSON.
ShapeRecipes ==
    {[Plain EXCEPT !.ty = ty, !.st = st, !.content = c, !.body = b,
                   !.comment = m, !.title = t] :
        ty \in Tags \cup {"-", "unknown", "null"},
        st \in {"-", "question", "complete"},
        c \in {"-", "empty", "text", "seven"},
        b \in {"-", "empty", "text"},
        m \in {"-", "empty", "text"},
        t \in {"-", "empty", "text"}}

\* A few replies, each a recognized or an unrecognized object.
CoreRecipes ==
    {[Plain EXCEPT !.ty = "question", !.content = "text"],
     [Plain EXCEPT !.ty = "question", !.content = "braces"],
     [Plain EXCEPT !.ty = "complete", !.body = "braces", !.title = "text"],
     [Plain EXCEPT !.ty = "complete", !.body = "text", !.comment = "text"],
     [Plain EXCEPT !.ty = "no_change"],
     [Plain EXCEPT !.ty = "unknown"],
     [Plain EXCEPT !.ty = "question"],
     [Plain EXCEPT !.ty = "complete", !.body = "empty"]}

\* The same replies wrapped in prose and padded with whitespace.
WrappedRecipes ==
    {[r EXCEPT !.pre = a, !.post = b, !.lead = l, !.tail = t] :
        r \in CoreRecipes, a \in ProseBefore, b \in ProseAfter,
        l \in Padding, t \in Padding}

\* The same replies with single quotes and / or a trailing comma.
SloppyRecipes ==
    {[r EXCEPT !.q = q, !.comma = c] :
        r \in CoreRecipes, q \in {DQ, SQ}, c \in BOOLEAN}

RawChars == {"{", "}", "[", "]", DQ, "null", "7", SP, "plain", ","}

RECURSIVE SeqsUpTo(_, _)
SeqsUpTo(S, n) ==
    IF n = 0 THEN {<<>>}
    ELSE LET shorter == SeqsUpTo(S, n - 1)
         IN  shorter \cup {Append(s, c) : s \in shorter, c \in S}

\* Replies that are no object of the expected form: every short text.
RawRecipes ==
    {[Plain EXCEPT !.fam = "raw", !.raw = s] : s \in SeqsUpTo(RawChars, MaxRawLen)}

Recipes == ShapeRecipes \cup WrappedRecipes \cup SloppyRecipes \cup RawRecipes

----------------------------------------------------------------------------
(* context.ts: timestamps, footer stripping, reset reconstruction *)

MaxComments == 2

\* A timestamp string: kind "iso" is an ISO-8601 instant, us microseconds
\* after the epoch; "garbage" is text that is no date; "absent" is the empty
\* or missing string.
Time(kind, us) == [kind |-> kind, us |-> us]
NoTime == Time("absent", 0)
BadTime == Time("garbage", 0)
Instant(us) == Time("iso", us)

\* Date.parse: milliseconds after the epoch, the sub-millisecond digits cut
\* off; NaN for anything that is no date.  Instants are never negative here,
\* which leaves -1 free to stand for NaN.
NaN == -1

\* Variant: the instant is compared with all its digits.
DateParse_exact(t) == IF t.kind = "iso" THEN t.us ELSE NaN

DateParse(t) == IF t.kind = "iso" THEN t.us \div 1000 ELSE NaN

\* The hosting API reports created_at in whole seconds.
ResetInstant == Instant(2000000)
CommentTimes == {BadTime, Instant(1000000), Instant(2000000), Instant(3000000)}

FOOTER == "<footer>"
RULE == "---"

stripFooter(body) ==
    LET footerIndex == IndexOf(body, FOOTER)
        withoutFooter == TrimEnd(Slice(body, 1, footerIndex - 1))
        n == Len(withoutFooter)
        \* replace(/\n---\s*$/, ""): withoutFooter has no trailing whitespace
        ruled == n >= 2 /\ withoutFooter[n] = RULE /\ withoutFooter[n - 1] = NL
    IN  IF footerIndex = NotFound THEN body
        ELSE IF ruled THEN TrimEnd(Slice(withoutFooter, 1, n - 2))
        ELSE withoutFooter

Includes(body, c) == IndexOf(body, c) # NotFound

\* The answer of the userContentEdits query: its nodes, oldest first, or a
\* failure of the request.
History(ok, nodes) == [ok |-> ok, nodes |-> nodes]
HistoryDown == History(FALSE, <<>>)

\* nodes.slice().reverse(), then the first string body without the footer;
\* i runs from the newest snapshot (the last node) to the oldest.
RECURSIVE NewestHuman(_, _)
NewestHuman(nodes, i) ==
    IF i = 0 THEN Undefined
    ELSE IF nodes[i].k = "string" /\ ~Includes(nodes[i].s, FOOTER) THEN nodes[i]
    ELSE NewestHuman(nodes, i - 1)

\* Variant: the first snapshot is taken as it is and the current body is not
\* stripped (lines 26-62, the version this one replaced).
fetchOriginalDescription_first(hist, fallbackBody) ==
    IF hist.ok /\ hist.nodes # <<>> /\ Truthy(hist.nodes[1]) THEN hist.nodes[1].s
    ELSE fallbackBody

\* Lines 206-243.
fetchOriginalDescription(hist, fallbackBody) ==
    LET found == IF ~hist.ok THEN Undefined   \* caught, logged as a warning
                 ELSE NewestHuman(hist.nodes, Len(hist.nodes))
    IN  IF found.k = "string" THEN found.s ELSE stripFooter(fallbackBody)

\* Variant: the boundary is excluded.
KeepComment_strict(comment, resetTime) ==
    LET commentTime == DateParse(comment.createdAt)
    IN  IF commentTime = NaN THEN FALSE ELSE commentTime > resetTime

\* The filter callback of applyResetContext.
KeepComment(comment, resetTime) ==
    LET commentTime == DateParse(comment.createdAt)
    IN  IF commentTime = NaN THEN FALSE ELSE commentTime >= resetTime

RECURSIVE Filter(_, _)
Filter(comments, resetTime) ==
    IF comments = <<>> THEN <<>>
    ELSE IF KeepComment(Head(comments), resetTime)
         THEN <<Head(comments)>> \o Filter(Tail(comments), resetTime)
         ELSE Filter(Tail(comments), resetTime)

\* Whether applyResetContext goes on to the history lookup.
\* Variant: a resetCreatedAt that is no date is not turned away.
ResetApplies_unchecked(resetCreatedAt) == resetCreatedAt.kind # "absent"

ResetApplies(resetCreatedAt) ==
    resetCreatedAt.kind # "absent" /\ DateParse(resetCreatedAt) # NaN

applyResetContext(ctx, hist, resetCreatedAt) ==
    IF ~ResetApplies(resetCreatedAt) THEN ctx
    ELSE [ctx EXCEPT !.body = fetchOriginalDescription(hist, ctx.body),
                     !.comments = Filter(ctx.comments, DateParse(resetCreatedAt))]

----------------------------------------------------------------------------
(* format.ts: the texts the run writes *)

COMMANDS_HINT == "<commands hint>"
COMMANDS_LIST == "<commands list>"

\* String(value), as a template literal renders it.
RECURSIVE Stringify(_)
RECURSIVE JoinItems(_)
JoinItems(items) ==
    IF items = <<>> THEN <<>>
    ELSE IF Len(items) = 1 THEN Stringify(items[1])
    ELSE Stringify(items[1]) \o <<",">> \o JoinItems(Tail(items))
Stringify(v) ==
    CASE v.k = "string"    -> v.s
      [] v.k = "number"    -> v.s
      [] v.k = "object"    -> <<"[object Object]">>
      [] v.k = "array"     -> JoinItems(v.m)
      [] v.k = "null"      -> <<"null">>
      [] OTHER             -> <<"undefined">>

\* Variant: the refined text is written as it is.
buildSpecBody_bare(spec) == Stringify(spec)

buildSpecBody(spec) == Stringify(spec) \o <<NL, NL, RULE, NL, FOOTER>>

buildComment(content, authorLogin) ==
    <<"@", authorLogin, SP>> \o Stringify(content)
        \o <<NL, NL, RULE, NL, COMMANDS_HINT, NL, FOOTER>>

buildHelpComment == <<COMMANDS_LIST, NL, NL, RULE, NL, FOOTER>>

buildErrorComment(runUrl) ==
    <<"Spec Gardener encountered an error while processing this issue.", NL, NL,
      "Please check the workflow run for details:", NL, runUrl, NL, NL,
      RULE, NL, COMMANDS_HINT, NL, FOOTER>>

\* title.replace(/\s+/g, " "): every run of whitespace becomes one space.
RECURSIVE CollapseWs(_)
CollapseWs(s) ==
    IF s = <<>> THEN <<>>
    ELSE IF Head(s) \in Whitespace
         THEN <<SP>> \o CollapseWs(TrimStart(Tail(s)))
         ELSE <<Head(s)>> \o CollapseWs(Tail(s))

normalizeTitle(title) == Trim(CollapseWs(title))

----------------------------------------------------------------------------
(* adapters.ts: the agent table *)

KnownAgents == {"claude", "codex", "gemini"}

\* String.prototype.toLowerCase on the agent names used here.
ToLowerCase(name) ==
    CASE name = "Codex" -> "codex"
      [] OTHER -> name

AGENT_CONFIGS(key) ==
    CASE key = "claude" ->
            [name |-> "claude", package |-> "@anthropic-ai/claude-code@latest",
             args |-> <<"--dangerously-skip-permissions", "--allowed-tools",
                        "Read,Glob,Grep,Bash", "--print">>]
      [] key = "codex" ->
            [name |-> "codex", package |-> "@openai/codex@latest",
             args |-> <<"exec", "--dangerously-bypass-approvals-and-sandbox">>]
      [] key = "gemini" ->
            [name |-> "gemini", package |-> "@google/gemini-cli@latest",
             args |-> <<"--approval-mode", "yolo">>]

\* createAdapter: the adapter's name and the command buildCommand returns.
createAdapter(config) ==
    [name |-> config.name, cmd |-> "bunx", args |-> <<config.package>> \o config.args]
NoAdapter == [name |-> "", cmd |-> "", args |-> <<>>]

\* getAdapter: an unknown name falls back to an adapter that runs the name
\* itself as a package.
getAdapter(agentName) ==
    LET key == ToLowerCase(agentName)
    IN  IF key \in KnownAgents THEN createAdapter(AGENT_CONFIGS(key))
        ELSE createAdapter([name |-> key, package |-> key, args |-> <<>>])

----------------------------------------------------------------------------
(* main.ts: the inputs of a run *)

Agents == {"claude", "Codex", "custom-agent"}

\* RunDecision, the value shouldProcess returns.
Decision(shouldRun, command, commandCreatedAt) ==
    [shouldRun |-> shouldRun, command |-> command,
     commandCreatedAt |-> commandCreatedAt]
NoDecision == Decision(FALSE, "none", NoTime)

\* The comments of the item as listComments returns them: the i-th comment
\* has the body <<"comment", i>>.
Comment(i, createdAt) ==
    [author |-> "bob", body |-> <<"comment", i>>, createdAt |-> createdAt]
CommentLists ==
    UNION {{[i \in 1..n |-> Comment(i, f[i])] : f \in [1..n -> CommentTimes]} :
              n \in 0..MaxComments}

\* The body of the item on the host: as its author wrote it, or as an
\* earlier run left it.
RemoteBodies == {<<"desc">>, <<"spec", NL, NL, RULE, NL, FOOTER>>}

\* The event that started the run: the item was opened, the item was edited,
\* or a comment was created on it.  body is the body of the item, comment
\* and createdAt are the text and the timestamp of the comment.
Event(kind, body, comment, createdAt) ==
    [kind |-> kind, body |-> body, comment |-> comment, createdAt |-> createdAt]

COMMAND == "/spec-gardener"

\* The lines of a text.
RECURSIVE Lines(_)
Lines(text) ==
    LET k == IndexOf(text, NL)
    IN  IF k = NotFound THEN <<text>>
        ELSE <<SubSeq(text, 1, k - 1)>> \o Lines(SubSeq(text, k + 1, Len(text)))

\* The command a line gives: the token at the start of the trimmed line,
\* the longer forms before the bare one.
LineCommand(line) ==
    LET t == Trim(line)
        word == IF Len(t) >= 3 /\ t[2] = SP THEN t[3] ELSE ""
    IN  IF t = <<>> \/ t[1] # COMMAND THEN "none"
        ELSE IF word = "reset" THEN "reset"
        ELSE IF word = "help" THEN "help"
        ELSE "run"

\* The command of a comment: that of its first line that gives one.
RECURSIVE FirstCommand(_)
FirstCommand(lines) ==
    IF lines = <<>> THEN "none"
    ELSE IF LineCommand(Head(lines)) # "none" THEN LineCommand(Head(lines))
    ELSE FirstCommand(Tail(lines))

\* shouldProcess of ./commands.  An opened item runs; an edited item runs
\* unless its body carries the footer; a comment runs when it gives a
\* command, and a reset is anchored at the timestamp of the comment.
shouldProcess(event) ==
    IF event.kind = "opened" THEN Decision(TRUE, "run", NoTime)
    ELSE IF event.kind = "edited"
    THEN IF Includes(event.body, FOOTER) THEN Decision(FALSE, "none", NoTime)
         ELSE Decision(TRUE, "run", NoTime)
    ELSE LET command == FirstCommand(Lines(event.comment))
         IN  IF command = "none" THEN Decision(FALSE, "none", NoTime)
             ELSE Decision(TRUE, command,
                           IF command = "reset" THEN event.createdAt ELSE NoTime)

CommentTexts ==
    {<<"thanks">>, <<"see", SP, COMMAND>>, <<COMMAND>>,
     <<COMMAND, SP, "help">>, <<"please", NL, SP, COMMAND, SP, "reset">>}

Events ==
    {Event(kind, body, <<>>, NoTime) : kind \in {"opened", "edited"}, body \in RemoteBodies}
    \cup {Event("comment", body, text, t) :
             body \in RemoteBodies, text \in CommentTexts,
             t \in {NoTime, BadTime, ResetInstant}}

RunDecisions == {shouldProcess(e) : e \in Events}

\* Every history of up to MaxHistory snapshots, oldest first: two different
\* descriptions by people, a body an earlier run wrote, an empty body, and a
\* snapshot without a body.
MaxHistory == 2
Snapshots ==
    {StrVal(<<"first">>), StrVal(<<"second">>), StrVal(<<>>), Null,
     StrVal(<<"spec", NL, NL, RULE, NL, FOOTER>>)}
AllHistories ==
    {HistoryDown} \cup
    UNION {{History(TRUE, nodes) : nodes \in [1..n -> Snapshots]} : n \in 0..MaxHistory}

\* Timestamps a microsecond apart on both sides of a millisecond boundary.
FineTimes ==
    {Instant(1999999), Instant(2000000), Instant(2000499), Instant(2000500),
     Instant(2001000)}
FineCommentLists ==
    UNION {{[i \in 1..n |-> Comment(i, f[i])] : f \in [1..n -> FineTimes \cup {BadTime}]} :
              n \in 0..MaxComments}

Histories ==
    {HistoryDown, History(TRUE, <<>>), History(TRUE, <<Null>>),
     History(TRUE, <<StrVal(<<"orig">>), StrVal(<<"spec", NL, NL, RULE, NL, FOOTER>>)>>)}

Files(present) ==
    [present |-> present,
     files |-> IF present
               THEN <<[filename |-> "src/main.ts", status |-> "modified",
                       additions |-> 10, deletions |-> 2, changes |-> 12]>>
               ELSE <<>>]

\* SpecContext
Context(title, body, author, comments, changedFiles) ==
    [title |-> title, body |-> body, author |-> author, comments |-> comments,
     changedFiles |-> changedFiles]
NoContext == Context(<<>>, <<>>, "", <<>>, Files(FALSE))

\* The replies the agent gives in a run.
RunRecipes ==
    {[Plain EXCEPT !.ty = "question", !.content = "text"],
     [Plain EXCEPT !.ty = "complete", !.body = "braces", !.title = "text"],
     [Plain EXCEPT !.ty = "no_change"],
     [Plain EXCEPT !.ty = "unknown"],
     [Plain EXCEPT !.fam = "raw", !.raw = <<"plain", SP, "output">>],
     [Plain EXCEPT !.fam = "raw", !.raw = <<>>, !.lead = <<SP, NL>>]}

\* One call to the host or to the operating system: the operation, the text
\* sent, the title sent (Undefined when none), and whether it succeeded.
Call(op, body, title, ok) == [op |-> op, body |-> body, title |-> title, ok |-> ok]

\* The subprocess Bun.spawn returns: "none" before the spawn, then "running",
\* then "exited" with its code, or "killed" by proc.kill().
Process(state, exitCode) == [state |-> state, exitCode |-> exitCode]
NoProcess == Process("none", 0)
ExitCodes == {0, 1}
Stderrs == {<<>>, <<"boom">>}

\* An Error: what threw it and its message.
Error(kind, message) == [kind |-> kind, message |-> message]
NoError == Error("none", <<>>)
RequestError == Error("request", <<"request failed">>)

THUMBS_UP_REACTION == "+1"
RUN_URL == "<run url>"

Idle ==
    /\ agent = ""
    /\ decision = NoDecision
    /\ item = "issue"
    /\ fetched = NoContext
    /\ history = HistoryDown
    /\ context = NoContext
    /\ adapter = NoAdapter
    /\ calls = <<>>
    /\ notify = FALSE
    /\ failed = FALSE
    /\ proc = NoProcess
    /\ timer = "unset"
    /\ stderr = <<>>
    /\ error = NoError

----------------------------------------------------------------------------
(* main.ts: the run *)

Init ==
    /\ pc = "start"
    /\ recipe = Plain
    /\ output = <<>>
    /\ parsed = NoParse
    /\ Idle

\* Lines 191-208 throw: a required input is missing, the repository slug or
\* the event path is not set, or the event file is no JSON.  The item number
\* is not known yet, so the catch block cannot post.
ConfigError ==
    /\ pc = "start"
    /\ pc' = "catch"
    /\ error' = Error("config", <<"Unable to resolve repository owner/name.">>)
    /\ UNCHANGED <<recipe, output, parsed, agent, decision, fetched, history,
                   context, item, adapter, calls, notify, failed, proc,
                   timer, stderr>>

\* Variant: the decision not to run is not looked at.
Skip_goesOn ==
    /\ pc = "start"
    /\ \E ag \in Agents, e \in Events, it \in {"issue", "pullRequest"} :
          /\ ~shouldProcess(e).shouldRun
          /\ agent' = ag
          /\ decision' = shouldProcess(e)
          /\ item' = it
    /\ pc' = "fetch"
    /\ UNCHANGED <<recipe, output, parsed, fetched, history, context, adapter,
                   calls, notify, failed,
                   proc, timer, stderr, error>>

\* Lines 210-214: shouldProcess says not to run.
Skip ==
    /\ pc = "start"
    /\ \E ag \in Agents, e \in Events, it \in {"issue", "pullRequest"} :
          /\ ~shouldProcess(e).shouldRun
          /\ agent' = ag
          /\ decision' = shouldProcess(e)
          /\ item' = it
    /\ pc' = "done"
    /\ UNCHANGED <<recipe, output, parsed, fetched, history, context, adapter,
                   calls, notify, failed,
                   proc, timer, stderr, error>>

\* Variant: the help command takes the path of the other commands.
AfterClassify_noHelp(command) == "fetch"

\* Lines 223-232: where the run goes once it is known to run.
AfterClassify(command) == IF command = "help" THEN "help" ELSE "fetch"

\* Lines 191-223: the inputs are read, the event is classified and the item
\* number resolved (the events the action is subscribed to always carry it).
Begin ==
    /\ pc = "start"
    /\ \E ag \in Agents, e \in Events, it \in {"issue", "pullRequest"} :
          /\ shouldProcess(e).shouldRun
          /\ agent' = ag
          /\ decision' = shouldProcess(e)
          /\ item' = it
          /\ pc' = AfterClassify(shouldProcess(e).command)
    /\ notify' = TRUE
    /\ UNCHANGED <<recipe, output, parsed, fetched, history, context, adapter,
                   calls, failed,
                   proc, timer, stderr, error>>

\* Lines 223-231: the help command.
PostHelp ==
    /\ pc = "help"
    /\ \E ok \in BOOLEAN :
          /\ calls' = Append(calls, Call("createComment", buildHelpComment, Undefined, ok))
          /\ pc' = IF ok THEN "done" ELSE "catch"
          /\ error' = IF ok THEN error ELSE RequestError
    /\ UNCHANGED <<recipe, output, parsed, agent, decision, fetched, history,
                   context, item, adapter, notify, failed, proc, timer,
                   stderr>>

\* The requests of fetchIssueContext / fetchPullRequestContext, in order.
FetchOps(it) ==
    IF it = "pullRequest" THEN <<"pulls.get", "listComments", "listFiles">>
    ELSE <<"issues.get", "listComments">>

Requests(ops, failing) ==
    [i \in 1..Len(ops) |-> Call(ops[i], <<>>, Undefined, i # failing)]

\* Lines 232-234: the context is fetched; the body is stored footer-stripped.
FetchContext ==
    /\ pc = "fetch"
    /\ \E body \in RemoteBodies, comments \in CommentLists :
          fetched' = Context(<<"Old", SP, "title">>, stripFooter(body), "alice",
                             comments, Files(item = "pullRequest"))
    /\ calls' = calls \o Requests(FetchOps(item), 0)
    /\ pc' = "reset"
    /\ UNCHANGED <<recipe, output, parsed, agent, decision, history, context,
                   item, adapter, notify, failed,
                   proc, timer, stderr, error>>

\* One of the requests of the fetch fails.
FetchFails ==
    /\ pc = "fetch"
    /\ \E k \in 1..Len(FetchOps(item)) :
          calls' = calls \o Requests(SubSeq(FetchOps(item), 1, k), k)
    /\ pc' = "catch"
    /\ error' = RequestError
    /\ UNCHANGED <<recipe, output, parsed, agent, decision, fetched, history,
                   context, item, adapter, notify, failed, proc, timer,
                   stderr>>

\* Lines 235-246: the reset command rebuilds the context; any other command
\* keeps it.  The history is looked up only when the reset applies.
AdjustContextWith(histories) ==
    /\ pc = "reset"
    /\ IF decision.command = "reset"
       THEN \E hist \in histories :
               /\ history' = IF ResetApplies(decision.commandCreatedAt)
                             THEN hist ELSE history
               /\ context' = applyResetContext(fetched, hist, decision.commandCreatedAt)
               /\ calls' = IF ResetApplies(decision.commandCreatedAt)
                           THEN Append(calls, Call("graphql", <<>>, Undefined, hist.ok))
                           ELSE calls
       ELSE /\ context' = fetched
            /\ UNCHANGED <<history, calls>>
    /\ pc' = "adapter"
    /\ UNCHANGED <<recipe, output, parsed, agent, decision, fetched, item,
                   adapter, notify, failed,
                   proc, timer, stderr, error>>

AdjustContext == AdjustContextWith(Histories)

\* Lines 247-250: the adapter is chosen; getAdapter has no throw.
ChooseAdapter ==
    /\ pc = "adapter"
    /\ adapter' = getAdapter(agent)
    /\ pc' = "run"
    /\ UNCHANGED <<recipe, output, parsed, agent, decision, fetched, history,
                   context, item, calls, notify, failed,
                   proc, timer, stderr, error>>

\* runProvider, lines 61-81: the agent process is started.
SpawnProvider ==
    /\ pc = "run"
    /\ calls' = Append(calls, Call("spawn", <<adapter.cmd>> \o adapter.args, Undefined, TRUE))
    /\ proc' = Process("running", 0)
    /\ timer' = "armed"
    /\ pc' = "await"
    /\ UNCHANGED <<recipe, output, parsed, agent, decision, fetched, history,
                   context, item, adapter, notify, failed, stderr, error>>

\* The agent process ends by itself: proc.exited resolves with its code and
\* the pipes hold what it wrote.  The reply counts only for code 0.
ProcessExits ==
    /\ pc = "await"
    /\ proc.state = "running"
    /\ \E code \in ExitCodes, r \in RunRecipes, err \in Stderrs :
          /\ proc' = Process("exited", code)
          /\ recipe' = IF code = 0 THEN r ELSE recipe
          /\ stderr' = err
    /\ pc' = "await"
    /\ UNCHANGED <<output, parsed, agent, decision, fetched, history, context,
                   item, adapter, calls, notify, failed, timer, error>>

\* Variant: the finally block leaves the timer pending.
ClearTimeout_forgotten(t) == t

\* runProvider, lines 116-120: the finally block cancels a pending timer.
ClearTimeout(t) == IF t = "armed" THEN "cleared" ELSE t

\* The message of the error execute throws, line 92.
ExitError(exitCode, err) ==
    Error("exit", <<"Provider exited with code", SP, ToString(exitCode), ":", SP>> \o err)

\* The message of the error the timer callback rejects with, line 110.
TimeoutError == Error("timeout", <<"Provider timed out after", SP, "timeoutMs", "ms.">>)

\* Variant: execute does not look at the exit code.
ProviderReturns_anyCode ==
    /\ pc = "await"
    /\ proc.state = "exited"
    /\ output' = Render(recipe)
    /\ timer' = ClearTimeout(timer)
    /\ pc' = "parse"
    /\ UNCHANGED <<recipe, parsed, agent, decision, fetched, history, context,
                   item, adapter, calls, notify, failed, proc, stderr, error>>

\* runProvider, lines 84-99 and 113: the process has exited with code 0 and
\* execute settles the race before the timer fires; main receives stdout.
ProviderReturns ==
    /\ pc = "await"
    /\ proc = Process("exited", 0)
    /\ output' = Render(recipe)
    /\ timer' = ClearTimeout(timer)
    /\ pc' = "parse"
    /\ UNCHANGED <<recipe, parsed, agent, decision, fetched, history, context,
                   item, adapter, calls, notify, failed, proc, stderr, error>>

\* Variant: the failure of the process is swallowed and main goes on with
\* an empty output.
ProviderFails_swallowed ==
    /\ pc = "await"
    /\ proc.state = "exited"
    /\ proc.exitCode # 0
    /\ error' = ExitError(proc.exitCode, stderr)
    /\ timer' = ClearTimeout(timer)
    /\ pc' = "parse"
    /\ UNCHANGED <<recipe, output, parsed, agent, decision, fetched, history,
                   context, item, adapter, calls, notify, failed, proc, stderr>>

\* runProvider, lines 91-93 and 113: the process has exited with another code
\* and execute settles the race before the timer fires.
ProviderFails ==
    /\ pc = "await"
    /\ proc.state = "exited"
    /\ proc.exitCode # 0
    /\ error' = ExitError(proc.exitCode, stderr)
    /\ timer' = ClearTimeout(timer)
    /\ pc' = "catch"
    /\ UNCHANGED <<recipe, output, parsed, agent, decision, fetched, history,
                   context, item, adapter, calls, notify, failed, proc,
                   stderr>>

\* runProvider, lines 107-112: the timer callback.  It runs whenever the
\* timer is still pending: proc.kill() is called (a process that has exited
\* but whose execute has not settled yet is left as it is) and the race is
\* rejected, which only counts while runProvider has not settled.  The later
\* rejection of execute is swallowed by line 105.
ProviderTimesOut ==
    /\ timer = "armed"
    /\ timer' = "fired"
    /\ calls' = Append(calls, Call("kill", <<>>, Undefined, TRUE))
    /\ IF proc.state = "running"
       THEN /\ proc' = Process("killed", 0)
            /\ stderr' \in Stderrs
       ELSE UNCHANGED <<proc, stderr>>
    /\ IF pc = "await"
       THEN /\ error' = TimeoutError
            /\ pc' = "catch"
       ELSE UNCHANGED <<error, pc>>
    /\ UNCHANGED <<recipe, output, parsed, agent, decision, fetched, history,
                   context, item, adapter, notify, failed>>

\* Lines 253-257: the output is parsed.
ParseOutput ==
    /\ pc = "parse"
    /\ parsed' = parseCliOutput(output)
    /\ pc' = IF parsed'.threw THEN "catch" ELSE "dispatch"
    /\ error' = IF parsed'.threw THEN Error("type", <<"not a function">>) ELSE error
    /\ UNCHANGED <<recipe, output, agent, decision, fetched, history, context,
                   item, adapter, calls, notify, failed, proc, timer, stderr>>


----------------------------------------------------------------------------
(* main.ts: applyResult and the catch block *)

\* Variant: a reply that was not understood is treated as no change.
DispatchedResult_dropsFallback(p) == IF p.parseFailed THEN NoChange ELSE p.result

\* Lines 253-259: of the ParseResult only the result is handed to applyResult.
DispatchedResult(p) == p.result

\* Variant: the no_change branch does not return and goes on to the summary.
ReactNoChange_fallsThrough ==
    /\ pc = "dispatch"
    /\ DispatchedResult(parsed).type = "no_change"
    /\ \E ok \in BOOLEAN :
          /\ calls' = Append(calls, Call("reactions.createForIssue",
                                         <<THUMBS_UP_REACTION>>, Undefined, ok))
          /\ pc' = IF ok THEN "summary" ELSE "catch"
          /\ error' = IF ok THEN error ELSE RequestError
    /\ UNCHANGED <<recipe, output, parsed, agent, decision, fetched, history,
                   context, item, adapter, notify, failed, proc, timer, stderr>>

\* applyResult, lines 131-139.
ReactNoChange ==
    /\ pc = "dispatch"
    /\ DispatchedResult(parsed).type = "no_change"
    /\ \E ok \in BOOLEAN :
          /\ calls' = Append(calls, Call("reactions.createForIssue",
                                         <<THUMBS_UP_REACTION>>, Undefined, ok))
          /\ pc' = IF ok THEN "done" ELSE "catch"
          /\ error' = IF ok THEN error ELSE RequestError
    /\ UNCHANGED <<recipe, output, parsed, agent, decision, fetched, history,
                   context, item, adapter, notify, failed, proc, timer,
                   stderr>>

\* applyResult, lines 140-149.
AskQuestion ==
    /\ pc = "dispatch"
    /\ DispatchedResult(parsed).type = "question"
    /\ \E ok \in BOOLEAN :
          /\ calls' = Append(calls, Call("createComment",
                                         buildComment(DispatchedResult(parsed).content,
                                                      context.author),
                                         Undefined, ok))
          /\ pc' = IF ok THEN "done" ELSE "catch"
          /\ error' = IF ok THEN error ELSE RequestError
    /\ UNCHANGED <<recipe, output, parsed, agent, decision, fetched, history,
                   context, item, adapter, notify, failed, proc, timer,
                   stderr>>

\* Variant: the current title is compared as it is.
TitleToSend_raw(result, currentTitle) ==
    LET normalizedTitle == normalizeTitle(result.title.s)
    IN  IF Truthy(result.title) /\ normalizedTitle # <<>>
           /\ normalizedTitle # currentTitle
        THEN StrVal(normalizedTitle)
        ELSE Undefined

\* The title applyResult sends, lines 164-170: Undefined when none is sent.
TitleToSend(result, currentTitle) ==
    LET normalizedTitle == normalizeTitle(result.title.s)
    IN  IF Truthy(result.title) /\ normalizedTitle # <<>>
           /\ normalizedTitle # normalizeTitle(currentTitle)
        THEN StrVal(normalizedTitle)
        ELSE Undefined

\* applyResult, lines 151-171.  A truthy title that is no string has no
\* replace method: normalizeTitle throws before the update is sent.
UpdateSpec ==
    /\ pc = "dispatch"
    /\ DispatchedResult(parsed).type = "complete"
    /\ LET result == DispatchedResult(parsed)
       IN  IF Truthy(result.title) /\ result.title.k # "string"
           THEN /\ pc' = "catch"
                /\ error' = Error("type", <<"title.replace is not a function">>)
                /\ UNCHANGED calls
           ELSE \E ok \in BOOLEAN :
                   /\ calls' = Append(calls, Call("issues.update",
                                                  buildSpecBody(result.body),
                                                  TitleToSend(result, context.title),
                                                  ok))
                   /\ pc' = IF ok THEN "summary" ELSE "catch"
                   /\ error' = IF ok THEN error ELSE RequestError
    /\ UNCHANGED <<recipe, output, parsed, agent, decision, fetched, history,
                   context, item, adapter, notify, failed, proc, timer,
                   stderr>>

\* applyResult, lines 173-182.
PostSummary ==
    /\ pc = "summary"
    /\ \E ok \in BOOLEAN :
          /\ calls' = Append(calls,
                Call("createComment",
                     buildComment(Coalesce(DispatchedResult(parsed).comment,
                                           StrVal(<<"Specification has been updated.">>)),
                                  context.author),
                     Undefined, ok))
          /\ pc' = IF ok THEN "done" ELSE "catch"
          /\ error' = IF ok THEN error ELSE RequestError
    /\ UNCHANGED <<recipe, output, parsed, agent, decision, fetched, history,
                   context, item, adapter, notify, failed, proc, timer,
                   stderr>>

\* Variant: postErrorComment does not catch, and a failed post leaves main
\* before core.setFailed.
HandleError_rethrows ==
    /\ pc = "catch"
    /\ IF notify
       THEN \E ok \in BOOLEAN :
               /\ calls' = Append(calls, Call("createComment", buildErrorComment(RUN_URL),
                                              Undefined, ok))
               /\ failed' = ok
       ELSE /\ UNCHANGED calls
            /\ failed' = TRUE
    /\ pc' = "done"
    /\ UNCHANGED <<recipe, output, parsed, agent, decision, fetched, history,
                   context, item, adapter, notify, proc, timer, stderr, error>>

\* Lines 260-266 with postErrorComment, lines 16-42: the error comment is
\* tried when the item is known, its own failure is only logged, and the run
\* is marked failed.
HandleError ==
    /\ pc = "catch"
    /\ IF notify
       THEN \E ok \in BOOLEAN :
               calls' = Append(calls, Call("createComment", buildErrorComment(RUN_URL),
                                           Undefined, ok))
       ELSE UNCHANGED calls
    /\ failed' = TRUE
    /\ pc' = "done"
    /\ UNCHANGED <<recipe, output, parsed, agent, decision, fetched, history,
                   context, item, adapter, notify,
                   proc, timer, stderr, error>>

Next ==
    \/ ConfigError
    \/ Skip
    \/ Begin
    \/ PostHelp
    \/ FetchContext
    \/ FetchFails
    \/ AdjustContext
    \/ ChooseAdapter
    \/ SpawnProvider
    \/ ProcessExits
    \/ ProviderReturns
    \/ ProviderFails
    \/ ProviderTimesOut
    \/ ParseOutput
    \/ ReactNoChange
    \/ AskQuestion
    \/ UpdateSpec
    \/ PostSummary
    \/ HandleError

Spec == Init /\ [][Next]_vars

----------------------------------------------------------------------------
(* The parser on its own: every reply of Recipes is handed to parseOutput. *)

InitParse ==
    /\ pc = "parse"
    /\ recipe \in Recipes
    /\ output = Render(recipe)
    /\ parsed = NoParse
    /\ Idle

NextParse == ParseOutput

SpecParse == InitParse /\ [][NextParse]_vars

----------------------------------------------------------------------------
(* Properties of the parser (SpecParse) *)

HasParsed == parsed # NoParse

\* t is text with its outer whitespace removed.
IsTrimOf(t, text) ==
    /\ t = <<>> \/ (t[1] \notin Whitespace /\ t[Len(t)] \notin Whitespace)
    /\ \E i \in 1..(Len(text) + 1) :
          /\ i + Len(t) - 1 <= Len(text)
          /\ t = SubSeq(text, i, i + Len(t) - 1)
          /\ \A k \in 1..Len(text) :
                (k < i \/ k > i + Len(t) - 1) => text[k] \in Whitespace

Trimmed(text) == CHOOSE t \in {SubSeq(text, i, j) : i \in 1..(Len(text) + 1), j \in 0..Len(text)} :
                    IsTrimOf(t, text)

Recognized(candidate) == parseJsonResult(candidate).kind = "result"

\* The text from the first "{" to the last "}" of t, or <<>> when there is
\* no such pair.
BraceSpan(t) ==
    LET opens == {i \in 1..Len(t) : t[i] = "{"}
        closes == {i \in 1..Len(t) : t[i] = "}"}
        first == CHOOSE i \in opens : \A k \in opens : i <= k
        last == CHOOSE i \in closes : \A k \in closes : k <= i
    IN  IF opens # {} /\ closes # {} /\ first < last
        THEN SubSeq(t, first, last) ELSE <<>>

NoAttemptRecognized(text) ==
    /\ ~Recognized(Trimmed(text))
    /\ BraceSpan(Trimmed(text)) # <<>> => ~Recognized(BraceSpan(Trimmed(text)))

\* C1: parseCliOutput never throws, and when neither the trimmed text nor
\* its brace span decodes to a recognized shape the result is a question
\* with parseFailed = TRUE whose content is the trimmed input, or the fixed
\* "No output received from agent." when the trimmed input is empty.
C1_FallbackTotal ==
    HasParsed =>
        /\ ~parsed.threw
        /\ NoAttemptRecognized(output) =>
              /\ parsed.parseFailed
              /\ parsed.result.type = "question"
              /\ parsed.result.content.k = "string"
              /\ IF \A k \in 1..Len(output) : output[k] \in Whitespace
                 THEN parsed.result.content.s = <<"No output received from agent.">>
                 ELSE IsTrimOf(parsed.result.content.s, output)

C1_Witness ==
    /\ HasParsed
    /\ parsed.parseFailed
    /\ recipe.ty = "unknown"
    /\ recipe.lead # <<>>
    /\ recipe.tail # <<>>
    /\ recipe.post # <<>>

\* A reply {"type":"complete","body":B,...} in plain JSON with a non-empty
\* text B, whatever whitespace surrounds it.
WellFormedComplete(r) ==
    /\ r.fam = "object"
    /\ r.ty = "complete"
    /\ r.body \in {"text", "braces"}
    /\ r.q = DQ
    /\ ~r.comma
    /\ r.pre = <<>>
    /\ r.post = <<>>

\* C2: a well-formed complete reply with non-empty body B parses with
\* parseFailed = FALSE to a complete result whose body is B and whose comment
\* is "Spec updated by Spec Gardener." when no comment or an empty one was
\* supplied.
C2_CompleteRoundTrip ==
    (HasParsed /\ WellFormedComplete(recipe)) =>
        /\ ~parsed.parseFailed
        /\ parsed.result.type = "complete"
        /\ parsed.result.body = FieldValue(recipe.body)
        /\ recipe.comment \in {"-", "empty"} =>
              parsed.result.comment = StrVal(<<"Spec updated by Spec Gardener.">>)

C2_Witness ==
    /\ HasParsed
    /\ WellFormedComplete(recipe)
    /\ recipe.comment = "empty"
    /\ parsed.result.body = StrVal(<<"Hi">>)

\* A reply whose object, in plain JSON, has a recognized tag and the field
\* the tag requires.
Recognizable(r) ==
    /\ r.fam = "object"
    /\ \/ r.ty = "question" /\ r.content \in {"text", "braces"}
       \/ r.ty = "complete" /\ r.body \in {"text", "braces"}
       \/ r.ty = "no_change"

\* The parse recovered the object the recipe wrote.
Recovered(r) ==
    /\ ~parsed.parseFailed
    /\ parsed.result.type = r.ty
    /\ r.ty = "question" => parsed.result.content = FieldValue(r.content)
    /\ r.ty = "complete" => parsed.result.body = FieldValue(r.body)

Embedded(r) ==
    /\ Recognizable(r)
    /\ r.q = DQ
    /\ ~r.comma
    /\ r.pre # <<>> \/ r.post # <<>>

\* C3 as stated: whatever prose surrounds one recognized object, the parse
\* recovers the object with parseFailed = FALSE.
C3_AnyProse ==
    (HasParsed /\ Embedded(recipe)) => Recovered(recipe)

\* C3: when no "{" precedes the recognized object and no "}" follows it in
\* the surrounding prose, the parse recovers the object with
\* parseFailed = FALSE.
C3_ExtractsEmbedded ==
    (HasParsed /\ Embedded(recipe)
        /\ ~Includes(recipe.pre, "{") /\ ~Includes(recipe.post, "}"))
    => Recovered(recipe)

C3_Witness ==
    /\ HasParsed
    /\ Embedded(recipe)
    /\ recipe.pre = <<"Output", ":", NL, "~~~", "json", NL>>
    /\ recipe.post = <<NL, "~~~">>
    /\ recipe.content = "braces"
    /\ Recovered(recipe)

\* A reply whose object, in plain JSON, has an unknown or no discriminant, or
\* lacks the non-empty field its tag requires.
Unrecognizable(r) ==
    /\ r.fam = "object"
    /\ r.q = DQ
    /\ ~r.comma
    /\ \/ r.ty = "unknown"
       \/ r.ty = "question" /\ r.content \in {"-", "empty"}
       \/ r.ty = "complete" /\ r.body \in {"-", "empty"}
       \/ r.ty = "-" /\ r.st = "-"

\* C4: an object with an unrecognized discriminant or without the non-empty
\* field its tag requires is never returned as a success; the result is the
\* question whose content is the whole trimmed reply, prose included, with
\* parseFailed = TRUE.
C4_UnrecognizedFallsBack ==
    (HasParsed /\ Unrecognizable(recipe)) =>
        /\ parsed.parseFailed
        /\ parsed.result = Question(StrVal(Body(recipe)))

C4_Witness ==
    /\ HasParsed
    /\ Unrecognizable(recipe)
    /\ recipe.ty = "complete"
    /\ recipe.body = "empty"
    /\ recipe.pre # <<>>
    /\ parsed.parseFailed

\* C5: an otherwise valid reply with a comma before the closing brace is
\* repaired and parsed as the intended result with parseFailed = FALSE.
C5_TrailingCommaRepaired ==
    (HasParsed /\ Recognizable(recipe) /\ recipe.comma /\ recipe.q = DQ
        /\ recipe.pre = <<>> /\ recipe.post = <<>>)
    => Recovered(recipe)

\* C6: a reply written with single quotes throughout is rewritten to double
\* quotes and parsed as the intended result with parseFailed = FALSE.
C6_SingleQuotesRepaired ==
    (HasParsed /\ Recognizable(recipe) /\ recipe.q = SQ /\ ~recipe.comma
        /\ recipe.pre = <<>> /\ recipe.post = <<>>)
    => Recovered(recipe)

\* C7: the result of a complete reply carries a title exactly when the reply
\* has a non-empty title, and it is that title.
C7_TitleCarried ==
    (HasParsed /\ WellFormedComplete(recipe)) =>
        /\ (parsed.result.title # Undefined) <=> (recipe.title = "text")
        /\ recipe.title = "text" => parsed.result.title = FieldValue(recipe.title)

----------------------------------------------------------------------------
(* Properties of the run (Spec) *)

CallsOf(ops) == {i \in 1..Len(calls) : calls[i].op \in ops}

FetchingOps == {"issues.get", "pulls.get", "listComments", "listFiles", "graphql"}
DispatchOps == {"reactions.createForIssue", "issues.update"}

HelpComments ==
    {i \in 1..Len(calls) : calls[i].op = "createComment" /\ calls[i].body = buildHelpComment}
ErrorComments ==
    {i \in 1..Len(calls) :
        calls[i].op = "createComment" /\ calls[i].body = buildErrorComment(RUN_URL)}

UnknownAgent == agent \in Agents /\ ToLowerCase(agent) \notin KnownAgents

\* C8: a run whose agent is none of claude, codex, gemini is rejected with a
\* fatal error before anything is fetched from the host and before an agent
\* process is started.
C8_UnknownAgentRejectedFirst ==
    (UnknownAgent /\ decision.shouldRun) =>
        /\ CallsOf(FetchingOps \cup {"spawn"}) = {}
        /\ pc = "done" => failed

\* C9: a run whose command is help posts the help comment once and ends:
\* nothing is fetched, no reset reconstruction is made, no agent process is
\* started, no output is parsed and no result is dispatched.
C9_HelpShortCircuits ==
    decision.command = "help" =>
        /\ CallsOf(FetchingOps \cup {"spawn", "kill"} \cup DispatchOps) = {}
        /\ CallsOf({"createComment"}) = HelpComments \cup ErrorComments
        /\ Cardinality(HelpComments) <= 1
        /\ pc \in {"catch", "done"} => Cardinality(HelpComments) = 1
        /\ fetched = NoContext
        /\ context = NoContext
        /\ adapter = NoAdapter
        /\ parsed = NoParse

C9_Witness ==
    /\ decision.command = "help"
    /\ pc = "done"
    /\ ~failed
    /\ Len(calls) = 1
    /\ calls[1].ok

Adjusted == context # NoContext

\* The positions of the fetched comments whose createdAt is a date at or
\* after the reset instant.
InWindow(comments, reset) ==
    {i \in 1..Len(comments) :
        comments[i].createdAt.kind = "iso" /\ comments[i].createdAt.us >= reset.us}

\* The j-th smallest element of a set of positions.
Nth(S, j) == CHOOSE i \in S : Cardinality({k \in S : k < i}) = j - 1

----------------------------------------------------------------------------
(* applyResetContext on its own: contexts with comments a microsecond apart,
   bodies with and without the footer, and every history of AllHistories. *)

InitReset ==
    /\ pc = "reset"
    /\ recipe = Plain
    /\ output = <<>>
    /\ parsed = NoParse
    /\ agent = "claude"
    /\ item = "issue"
    /\ \E t \in {NoTime, BadTime, Instant(2000000), Instant(2000500)} :
          decision = Decision(TRUE, "reset", t)
    /\ \E body \in RemoteBodies, comments \in FineCommentLists :
          fetched = Context(<<"Old", SP, "title">>, body, "alice", comments, Files(FALSE))
    /\ history = HistoryDown
    /\ context = NoContext
    /\ adapter = NoAdapter
    /\ calls = <<>>
    /\ notify = TRUE
    /\ failed = FALSE
    /\ proc = NoProcess
    /\ timer = "unset"
    /\ stderr = <<>>
    /\ error = NoError

ResetContext == AdjustContextWith(AllHistories)

NextReset == ResetContext

SpecReset == InitReset /\ [][NextReset]_vars

\* The i-th fetched comment is among the comments of the adjusted context.
Retained(i) ==
    \E j \in 1..Len(context.comments) : context.comments[j] = fetched.comments[i]

ResetAt == decision.commandCreatedAt

\* The whole milliseconds of an instant.
Millis(t) == t.us \div 1000

\* C11 as stated: after a reset with a parseable resetCreatedAt, a comment
\* whose timestamp is one microsecond before resetCreatedAt is dropped and a
\* comment whose timestamp equals resetCreatedAt is retained.
C11_MicrosecondBoundary ==
    (Adjusted /\ ResetAt.kind = "iso") =>
        \A i \in 1..Len(fetched.comments) :
            LET at == fetched.comments[i].createdAt
            IN  /\ (at.kind = "iso" /\ at.us = ResetAt.us - 1) => ~Retained(i)
                /\ at = ResetAt => Retained(i)

\* C11, amended: timestamps are compared in whole milliseconds.  After a
\* reset with a parseable resetCreatedAt, a comment whose timestamp lies in an
\* earlier millisecond than resetCreatedAt is dropped, and a comment in the
\* same millisecond, the one equal to resetCreatedAt included, is retained.
C11_MillisecondBoundary ==
    (Adjusted /\ ResetAt.kind = "iso") =>
        \A i \in 1..Len(fetched.comments) :
            LET at == fetched.comments[i].createdAt
            IN  /\ (at.kind = "iso" /\ Millis(at) < Millis(ResetAt)) => ~Retained(i)
                /\ (at.kind = "iso" /\ Millis(at) = Millis(ResetAt)) => Retained(i)

\* A reset at a millisecond boundary: the comment one microsecond earlier is
\* dropped and the comment at the boundary is kept.
C11_Witness ==
    /\ Adjusted
    /\ ResetAt = Instant(2000000)
    /\ Len(fetched.comments) = 2
    /\ fetched.comments[1].createdAt = Instant(1999999)
    /\ fetched.comments[2].createdAt = Instant(2000000)
    /\ context.comments = <<fetched.comments[2]>>

\* C12: applyResetContext leaves the context it was given as it is, and when
\* resetCreatedAt is absent or no date it returns that context (title, body,
\* author, comments and changed files) without looking up the history.
C12_IdentityWithoutInstant ==
    [][(pc = "reset" /\ decision.command = "reset") =>
          /\ fetched' = fetched
          /\ ResetAt.kind # "iso" =>
                (context' = fetched /\ calls' = calls /\ history' = history)]_vars

\* A reset whose timestamp is no date has returned a context with a footer
\* in its body and two comments, one of them without a date, unchanged.
C12_Witness ==
    /\ pc = "adapter"
    /\ decision.command = "reset"
    /\ ResetAt = BadTime
    /\ Includes(fetched.body, FOOTER)
    /\ Len(fetched.comments) = 2
    /\ fetched.comments[1].createdAt = BadTime
    /\ context = fetched
    /\ CallsOf({"graphql"}) = {}

\* The snapshots of the looked-up history that a person wrote: those with a
\* body that does not carry the footer.
HumanSnapshots ==
    {i \in 1..Len(history.nodes) :
        history.nodes[i].k = "string" /\ ~Includes(history.nodes[i].s, FOOTER)}

IsPrefixOf(a, b) == Len(a) <= Len(b) /\ SubSeq(b, 1, Len(a)) = a

\* C13: the body of the context of a reset run is the newest snapshot of the
\* history that does not carry the footer; when the lookup fails or no
\* snapshot qualifies it is the current body up to its footer block, the
\* whole current body when that has no footer.  In no case does the body
\* carry the footer.
C13_OriginalDescription ==
    (Adjusted /\ ResetAt.kind = "iso") =>
        /\ ~Includes(context.body, FOOTER)
        /\ IF history.ok /\ HumanSnapshots # {}
           THEN \E i \in HumanSnapshots :
                   /\ \A k \in HumanSnapshots : k <= i
                   /\ context.body = history.nodes[i].s
           ELSE /\ IsPrefixOf(context.body, fetched.body)
                /\ ~Includes(fetched.body, FOOTER) => context.body = fetched.body

\* The newest snapshot carries the footer and is passed over for the older
\* one, although the current body carries the footer too.
C13_Witness ==
    /\ Adjusted
    /\ ResetAt.kind = "iso"
    /\ Includes(fetched.body, FOOTER)
    /\ history.ok
    /\ Len(history.nodes) = 2
    /\ history.nodes[1] = StrVal(<<"first">>)
    /\ Includes(history.nodes[2].s, FOOTER)
    /\ context.body = <<"first">>

----------------------------------------------------------------------------
(* applyResult on its own: every shape of CliResult, with and without a
   title, is dispatched against a context, whatever parseFailed says. *)

AgentTitles ==
    {Undefined, StrVal(<<>>), StrVal(<<SP>>), StrVal(<<"Old", SP, SP, "title", NL>>),
     StrVal(<<"New", SP, "title">>)}
CurrentTitles == {<<"Old", SP, "title">>, <<SP, "Old", NL, "title">>}

DispatchResults ==
    {NoChange, Question(StrVal(<<"Which", SP, "one?">>)),
     Question(StrVal(<<"Try", SP, "again:", NL, COMMAND, SP, "reset">>))}
    \cup {CliResult("complete", Undefined, StrVal(<<"refined">>), comment, title) :
             comment \in {Undefined, StrVal(<<"Done.">>)}, title \in AgentTitles}

InitDispatch ==
    /\ pc = "dispatch"
    /\ recipe = Plain
    /\ output = <<>>
    /\ \E result \in DispatchResults, parseFailed \in BOOLEAN :
          parsed = ParseResult(result, parseFailed)
    /\ agent = "claude"
    /\ decision = Decision(TRUE, "run", NoTime)
    /\ item = "issue"
    /\ \E title \in CurrentTitles :
          fetched = Context(title, <<"desc">>, "alice", <<>>, Files(FALSE))
    /\ history = HistoryDown
    /\ context = fetched
    /\ adapter = NoAdapter
    /\ calls = <<>>
    /\ notify = TRUE
    /\ failed = FALSE
    /\ proc = NoProcess
    /\ timer = "unset"
    /\ stderr = <<>>
    /\ error = NoError

NextDispatch ==
    \/ ReactNoChange
    \/ AskQuestion
    \/ UpdateSpec
    \/ PostSummary
    \/ HandleError

SpecDispatch == InitDispatch /\ [][NextDispatch]_vars

----------------------------------------------------------------------------
(* The dispatch *)

\* The calls that write to the item on behalf of a result: reactions, updates
\* and comments, the help comment and the error comment apart.
IsEffect(c) ==
    /\ c.op \in {"reactions.createForIssue", "issues.update", "createComment"}
    /\ c.body # buildHelpComment
    /\ c.body # buildErrorComment(RUN_URL)
Effects == SelectSeq(calls, IsEffect)

\* c is a comment that starts by addressing the author of the item.
AddressedComment(c) ==
    /\ c.op = "createComment"
    /\ c.title = Undefined
    /\ IsPrefixOf(<<"@", context.author, SP>>, c.body)

Dispatching == HasParsed /\ ~parsed.threw
Dispatched == Dispatching /\ pc # "dispatch"

\* C14: the calls of a run that write to the item are those of the tag of its
\* result and of no other.  For no_change: one reaction, no update and no
\* comment.  For question: one comment addressed to the author.  For
\* complete: one update whose body is the refined text followed by the
\* footer block, sent in every case, and, once the update went through, one
\* summary comment addressed to the author.  Before a result is dispatched
\* nothing is written.
C14_DispatchByTag ==
    LET result == parsed.result
    IN  /\ ~Dispatching => Effects = <<>>
        /\ (Dispatching /\ result.type = "no_change") =>
              /\ Len(Effects) = (IF Dispatched THEN 1 ELSE 0)
              /\ \A i \in 1..Len(Effects) :
                    /\ Effects[i].op = "reactions.createForIssue"
                    /\ Effects[i].title = Undefined
        /\ (Dispatching /\ result.type = "question") =>
              /\ Len(Effects) = (IF Dispatched THEN 1 ELSE 0)
              /\ \A i \in 1..Len(Effects) : AddressedComment(Effects[i])
        /\ (Dispatching /\ result.type = "complete") =>
              /\ Len(Effects) <= 2
              /\ Dispatched => Len(Effects) >= 1
              /\ Len(Effects) >= 1 =>
                    /\ Effects[1].op = "issues.update"
                    /\ Effects[1].body = result.body.s \o <<NL, NL, RULE, NL, FOOTER>>
              /\ Len(Effects) = 2 => (Effects[1].ok /\ AddressedComment(Effects[2]))
              /\ (pc = "done" /\ Effects[1].ok) => Len(Effects) = 2
        /\ Dispatching => result.type \in {"no_change", "question", "complete"}

\* A complete result has been dispatched to the end: the update, then the
\* summary comment.
C14_Witness ==
    /\ pc = "done"
    /\ ~failed
    /\ parsed.result.type = "complete"
    /\ Len(Effects) = 2
    /\ Effects[1].op = "issues.update"
    /\ Effects[2].op = "createComment"

\* The agent gave a title: result.title is a non-empty string.
TitleSupplied == parsed.result.title.k = "string" /\ parsed.result.title.s # <<>>

\* C15: an update carries a title only if the agent gave one and that title,
\* normalized, differs from the normalized current title; when the two
\* normalized titles are equal the update carries none.
C15_TitleOnlyWhenChanged ==
    \A i \in 1..Len(calls) :
        calls[i].op = "issues.update" =>
            LET sent == calls[i].title # Undefined
                same == normalizeTitle(parsed.result.title.s) = normalizeTitle(context.title)
            IN  /\ sent => (TitleSupplied /\ ~same)
                /\ (TitleSupplied /\ same) => ~sent

\* The agent's title differs from the current one only in its whitespace and
\* the update went out without a title.
C15_Witness ==
    /\ parsed.result.title = StrVal(<<"Old", SP, SP, "title", NL>>)
    /\ context.title = <<SP, "Old", NL, "title">>
    /\ Len(calls) >= 1
    /\ calls[1].op = "issues.update"
    /\ calls[1].title = Undefined

\* What a call sends, the answer of the host apart.
Payload(c) == [op |-> c.op, body |-> c.body, title |-> c.title]

\* The calls a result and a context prescribe: a function of these two only.
EffectOf(result, ctx) ==
    CASE result.type = "no_change" ->
            <<[op |-> "reactions.createForIssue", body |-> <<THUMBS_UP_REACTION>>,
               title |-> Undefined]>>
      [] result.type = "question" ->
            <<[op |-> "createComment", body |-> buildComment(result.content, ctx.author),
               title |-> Undefined]>>
      [] OTHER ->
            <<[op |-> "issues.update", body |-> buildSpecBody(result.body),
               title |-> TitleToSend(result, ctx.title)],
              [op |-> "createComment",
               body |-> buildComment(Coalesce(result.comment,
                                              StrVal(<<"Specification has been updated.">>)),
                                     ctx.author),
               title |-> Undefined]>>

\* C16: what a run writes to the item is determined by the parsed result and
\* the context alone, whatever parseFailed says: the calls issued so far are
\* the first calls of EffectOf(result, context), and all of them once the
\* run has ended without a failed request.  Two runs with equal results and
\* different flags therefore issue the same calls with the same content.
C16_FlagWithoutEffect ==
    LET expected == EffectOf(parsed.result, context)
    IN  /\ Len(Effects) <= Len(expected)
        /\ \A i \in 1..Len(Effects) : Payload(Effects[i]) = expected[i]
        /\ (pc = "done" /\ ~failed) => Len(Effects) = Len(expected)

\* A reply that was not understood, handed on as a question, has been posted
\* as the comment a genuine question gets.
C16_Witness ==
    /\ pc = "done"
    /\ ~failed
    /\ parsed.parseFailed
    /\ parsed.result.type = "question"
    /\ Len(Effects) = 1
    /\ Payload(Effects[1]) = EffectOf(parsed.result, context)[1]

----------------------------------------------------------------------------
(* runProvider *)

\* runProvider has started the process and has returned or thrown.
Settled == proc.state # "none" /\ pc # "await"

\* The messages execute can throw with.
ExitMessages == {ExitError(code, err).message : code \in ExitCodes \ {0}, err \in Stderrs}

ContainsText(text, part) ==
    \E i \in 1..(Len(text) + 1) :
        i + Len(part) - 1 <= Len(text) /\ SubSeq(text, i, i + Len(part) - 1) = part

\* C18: when runProvider fails, by the timer or by a non-zero exit code, the
\* message of the error it throws contains what the agent wrote to stderr.
C18_FailureCarriesStderr ==
    error.kind \in {"timeout", "exit"} => ContainsText(error.message, stderr)

----------------------------------------------------------------------------
(* The catch block *)

\* Something was thrown in this run.
Threw == error # NoError

\* C19 as stated: a run in which something was thrown ends marked failed,
\* with one error comment posted or tried on the item.
C19_EveryFailureNotified ==
    (pc = "done" /\ Threw) => (failed /\ Cardinality(ErrorComments) = 1)

\* C19, amended: whatever is thrown reaches the catch block and nothing else
\* does; the run then ends marked failed, whether or not the error comment
\* could be posted.  One error comment is tried when the repository, the item
\* number and the token were known at the time of the throw, and none
\* otherwise.
C19_FailureHandled ==
    /\ Threw <=> pc = "catch" \/ failed
    /\ failed => pc = "done"
    /\ (pc = "done" /\ Threw) =>
          /\ failed
          /\ Cardinality(ErrorComments) = (IF notify THEN 1 ELSE 0)
    /\ ~failed => ErrorComments = {}

\* The error comment could not be posted and the run is marked failed all
\* the same.
C19_Witness ==
    /\ pc = "done"
    /\ failed
    /\ \E i \in ErrorComments : ~calls[i].ok

----------------------------------------------------------------------------
(* Loop prevention *)

\* The event the host sends when the body of the item has been set to body.
EditedTo(body) == Event("edited", body, <<>>, NoTime)

\* C20: every body a run writes carries the footer, and the edit event that
\* follows such a write is classified as not to run; a run whose event is
\* classified as not to run ends without a call to the host and without an
\* agent process.
C20_NoSelfTrigger ==
    /\ \A i \in CallsOf({"issues.update"}) :
          /\ Includes(calls[i].body, FOOTER)
          /\ ~shouldProcess(EditedTo(calls[i].body)).shouldRun
    /\ (pc # "start" /\ ~Threw /\ ~decision.shouldRun) =>
          (pc = "done" /\ calls = <<>> /\ proc = NoProcess /\ ~failed)

\* A run has written a body, and the edit event of that body is not to run.
C20_Witness ==
    /\ pc = "done"
    /\ \E i \in CallsOf({"issues.update"}) :
          /\ calls[i].ok
          /\ ~shouldProcess(EditedTo(calls[i].body)).shouldRun

----------------------------------------------------------------------------
(* One agent process per run *)

\* runProvider has thrown: the timer fired or the exit code was not 0.
ProviderFailed == error.kind \in {"timeout", "exit"}

\* C21: a run starts the agent process at most once.  Once runProvider has
\* failed, by the timer or by the exit code, the run is on its way out: the
\* one process is not followed by another, no output is parsed, nothing is
\* dispatched, and the run ends marked failed.
C21_NoRetry ==
    /\ Cardinality(CallsOf({"spawn"})) <= 1
    /\ ProviderFailed =>
          /\ Cardinality(CallsOf({"spawn"})) = 1
          /\ pc \in {"catch", "done"}
          /\ output = <<>>
          /\ parsed = NoParse
          /\ Effects = <<>>
          /\ pc = "done" => failed

\* The timer fired: the run has ended failed after its one process, with
\* nothing parsed and nothing dispatched.
C21_Witness ==
    /\ pc = "done"
    /\ failed
    /\ error = TimeoutError
    /\ Cardinality(CallsOf({"spawn"})) = 1
    /\ parsed = NoParse
    /\ Effects = <<>>

----------------------------------------------------------------------------
(* Skipped events *)

\* The event of this run was classified as not to run.
Skipped == pc # "start" /\ ~Threw /\ ~decision.shouldRun

\* C22: a run whose event is classified as not to run has ended at once:
\* nothing was fetched, no agent was chosen or started, no request of any
\* kind went to the host, nothing was parsed, and the run is not marked
\* failed.
C22_SilentSkip ==
    Skipped =>
        /\ pc = "done"
        /\ calls = <<>>
        /\ fetched = NoContext
        /\ context = NoContext
        /\ adapter = NoAdapter
        /\ proc = NoProcess
        /\ timer = "unset"
        /\ parsed = NoParse
        /\ ~failed

\* A run on a pull request was skipped.
C22_Witness ==
    /\ Skipped
    /\ pc = "done"
    /\ agent \in Agents
    /\ item = "pullRequest"
    /\ calls = <<>>
    /\ ~failed

----------------------------------------------------------------------------
(* The shape of the parsed result *)

\* v is text that is not empty.
NonEmptyText(v) == v.k = "string" /\ v.s # <<>>

\* C23: the result parseCliOutput returns has one of the three tags; a
\* question has non-empty text as its content, a complete has non-empty text
\* as its body and text as its comment; and no object with an unknown or
\* missing tag is returned as a success.
C23_WellShaped ==
    HasParsed =>
        LET result == parsed.result
        IN  /\ ~parsed.threw
            /\ result.type \in Tags
            /\ result.type = "question" => NonEmptyText(result.content)
            /\ result.type = "complete" =>
                  (NonEmptyText(result.body) /\ result.comment.k = "string")
            /\ ~parsed.parseFailed => ~Unrecognizable(recipe)

----------------------------------------------------------------------------
(* Comments of the system as events *)

\* The event the host sends when a comment with this text has been created.
CommentedWith(text) == Event("comment", <<>>, text, ResetInstant)

\* A line of the text, trimmed, starts with the command token.
HasCommandLine(text) ==
    \E i \in 1..Len(Lines(text)) :
        LET t == Trim(Lines(text)[i]) IN t # <<>> /\ t[1] = COMMAND

\* C24: no comment the system posts, whatever content the agent supplied,
\* has a line that starts with the command token, and the event of such a
\* comment is classified as not to run.
C24_RepliesAreNoCommands ==
    \A i \in CallsOf({"createComment"}) :
        /\ ~HasCommandLine(calls[i].body)
        /\ ~shouldProcess(CommentedWith(calls[i].body)).shouldRun

----------------------------------------------------------------------------
(* The outcome of runProvider *)

\* How runProvider settled: with the timeout error, with the exit error, or
\* by returning stdout.
HowSettled == IF ProviderFailed THEN error.kind ELSE "returned"

\* What holds of each outcome: stdout is returned only from a process that
\* exited with code 0 while the timer was pending; the exit error comes from
\* a process that exited with another code while the timer was pending; the
\* timeout error comes from the timer, and then no stdout reaches main.
OutcomeJustified ==
    Settled =>
        /\ HowSettled = "returned" =>
              (proc = Process("exited", 0) /\ timer = "cleared" /\ output = Render(recipe))
        /\ HowSettled = "exit" =>
              (proc.state = "exited" /\ proc.exitCode # 0 /\ timer = "cleared"
               /\ output = <<>>)
        /\ HowSettled = "timeout" => (timer = "fired" /\ output = <<>>)

\* C25 as stated: each outcome is justified, and the timeout error is only
\* surfaced for a process that had not exited when the timer fired, that is,
\* one that the timer killed.
C25_TimeoutOnlyWhileRunning ==
    /\ OutcomeJustified
    /\ (Settled /\ HowSettled = "timeout") => proc.state = "killed"

\* C25, amended: runProvider settles once, and its outcome, the stdout it
\* returned and the state of the timer never change afterwards; each outcome
\* is justified as above; the timeout error is surfaced whenever the timer
\* fires before execute has settled, for a process the timer killed as well
\* as for one that had exited while its output was still being read.
C25_SettlesOnce ==
    /\ []OutcomeJustified
    /\ []((Settled /\ HowSettled = "timeout") => proc.state \in {"killed", "exited"})
    /\ [][Settled =>
            /\ Settled'
            /\ HowSettled' = HowSettled
            /\ output' = output
            /\ timer' = timer
            /\ proc' = proc]_vars

\* The process had exited with code 0, the timer fired before execute
\* settled, and the run failed with the timeout error and without stdout.
C25_Witness ==
    /\ Settled
    /\ error = TimeoutError
    /\ proc = Process("exited", 0)
    /\ timer = "fired"
    /\ output = <<>>
    /\ Cardinality(CallsOf({"kill"})) = 1

====
